---- MODULE Spec2Model ----
(***************************************************************************)
(* A model of apprise/AppriseLocale.py: language detection, the per-manager *)
(* cache of gettext catalogs, the scoped switch lang_at and the lazy        *)
(* translation wrapper.                                                     *)
(*                                                                          *)
(* Python strings are sequences of one-character strings.  None (and every  *)
(* other non-string argument) is the value None below, which is no sequence *)
(* of characters of Chars.  Exceptions are one-element sequences too, so    *)
(* that every value a variable can hold is comparable with every other.     *)
(***************************************************************************)
EXTENDS Integers, Sequences, FiniteSets, TLC

VARIABLES
    environ,        \* os.environ restricted to the four locale variables
    hasWindll,      \* hasattr(ctypes, 'windll')
    winLocale,      \* locale.windows_locale[GetUserDefaultUILanguage()] or LookupFailure
    osLocale,       \* locale.getlocale()[0]: a string, None, or TypeErrorRaised
    d_lang,         \* detect_language: argument lang of the last call
    d_fallback,     \* detect_language: argument detect_fallback of the last call
    d_result,       \* detect_language: value returned by the last call
    d_stage,        \* detect_language: the return statement that produced it
    GETTEXT_LOADED, \* module flag, line 48/58
    available,      \* language codes that have a catalog file under LOCALE_DIR
    constructed,    \* AppriseLocale.__init__ has run
    self_lang,      \* self.lang
    gtobjs,         \* self._gtobjs: language key -> catalog object
    installed,      \* the catalog whose gettext is builtins._
    stack,          \* open lang_at scopes, innermost last
    suspended,      \* lang_at generators left suspended at line 184 after a throw
    loads,          \* requested key -> number of gettext.translation calls made for it
    last,           \* history: the last operation, its arguments and its outcome
    gen,            \* number of __setstate__ calls so far on the manager
    pickled,        \* the state __getstate__ returned last, or NoState
    threads,        \* thread -> the lang_at scope it runs on the shared manager
    writer          \* the thread that installed a catalog last, or "none"

vars == <<environ, hasWindll, winLocale, osLocale, d_lang, d_fallback, d_result,
          d_stage, GETTEXT_LOADED, available, constructed, self_lang, gtobjs,
          installed, stack, suspended, loads, last, gen, pickled, threads, writer>>

envVars == <<environ, hasWindll, winLocale, osLocale>>
detectVars == <<d_lang, d_fallback, d_result, d_stage>>
pickleVars == <<gen, pickled>>
threadVars == <<threads, writer>>
managerVars == <<GETTEXT_LOADED, available, constructed, self_lang, gtobjs, installed,
                 stack, suspended, loads, last, gen, pickled, threads, writer>>

----------------------------------------------------------------------------
(* Bounds *)

MaxLen == 3         \* longest raw language string given to detect_language
MaxDepth == 2       \* deepest nesting of lang_at scopes
MaxLoads == 2       \* most gettext.translation calls counted per requested key
MaxSuspended == 1   \* most generators awaiting finalisation at a time
MaxPickles == 1     \* most __setstate__ calls on the manager

----------------------------------------------------------------------------
(* Values *)

None == <<"None">>
TypeErrorRaised == <<"TypeError">>
LookupFailure == <<"KeyError">>

Lowers == {"e", "n", "f", "r", "d"}
Uppers == {"E", "F", "R"}
Letters == Lowers \cup Uppers
Chars == {"e", "n", "F", "r", "1", "_", " "}

RECURSIVE StringsOfLen(_)
StringsOfLen(n) ==
    IF n = 0 THEN {<<>>}
    ELSE {Append(s, c) : s \in StringsOfLen(n - 1), c \in Chars}

Strings == UNION {StringsOfLen(n) : n \in 0..MaxLen}

en == <<"e", "n">>
fr == <<"f", "r">>
de == <<"d", "e">>

----------------------------------------------------------------------------
(* Language detection *)

\* str.lower() on one character
LowerChar(c) ==
    CASE c = "E" -> "e"
      [] c = "F" -> "f"
      [] c = "R" -> "r"
      [] OTHER -> c

\* str.lower()
Lower(s) == [i \in 1..Len(s) |-> LowerChar(s[i])]

\* lang[0:2]
Slice2(s) == IF Len(s) <= 2 THEN s ELSE SubSeq(s, 1, 2)

\* the \s* prefix of _local_re
RECURSIVE SkipSpace(_)
SkipSpace(s) ==
    IF s # <<>> /\ Head(s) = " " THEN SkipSpace(Tail(s)) ELSE s

\* _local_re.match(localename) followed by result.group('lang'): the two
\* letters after optional white space, or None when the expression does not
\* match (the group lang is not optional in the expression).
local_re_lang(localename) ==
    LET t == SkipSpace(localename) IN
    IF Len(t) >= 2 /\ t[1] \in Letters /\ t[2] \in Letters
    THEN SubSeq(t, 1, 2)
    ELSE None

EnvOrder == <<"LC_ALL", "LC_CTYPE", "LANG", "LANGUAGE">>

\* the loop with the variables probed from the last to the first
RECURSIVE PosixLookupDownFrom(_)
PosixLookupDownFrom(i) ==
    IF i < 1 THEN None
    ELSE LET localename == environ[EnvOrder[i]] IN
         IF localename # None /\ localename # <<>> /\ local_re_lang(localename) # None
         THEN Lower(local_re_lang(localename))
         ELSE PosixLookupDownFrom(i - 1)

\* the for loop of lines 209-214, from the i-th variable on: the code
\* returned inside the loop, or None when the loop falls through
RECURSIVE PosixLookupFrom(_)
PosixLookupFrom(i) ==
    IF i > Len(EnvOrder) THEN None
    ELSE LET localename == environ[EnvOrder[i]] IN
         IF localename # None /\ localename # <<>> /\ local_re_lang(localename) # None
         THEN Lower(local_re_lang(localename))
         ELSE PosixLookupFrom(i + 1)

PosixLookupReversed == PosixLookupDownFrom(Len(EnvOrder))

PosixLookup == PosixLookupFrom(1)

\* line 245: return None if not lang else lang[0:2].lower()
Truncate(lang) ==
    IF lang = None \/ lang = <<>> THEN None ELSE Lower(Slice2(lang))

\* detect_language(lang, detect_fallback): the value returned and the return
\* statement reached.  A non-string lang is None.
detect(lang, detect_fallback) ==
    IF lang # None
    THEN [value |-> Truncate(lang), stage |-> "supplied"]
    ELSE IF ~detect_fallback
    THEN [value |-> None, stage |-> "nofallback"]
    ELSE IF PosixLookup # None
    THEN [value |-> PosixLookup, stage |-> "posix"]
    ELSE IF hasWindll /\ winLocale # LookupFailure
    THEN [value |-> Lower(Slice2(winLocale)), stage |-> "windows"]
    ELSE IF osLocale = TypeErrorRaised
    THEN [value |-> None, stage |-> "warning"]
    ELSE [value |-> Truncate(osLocale), stage |-> "generic"]

detect_language(lang, detect_fallback) == detect(lang, detect_fallback).value

----------------------------------------------------------------------------
(* Catalogs *)

\* A catalog object: lang is the language whose file it was read from; key,
\* the cache key it is stored under, and gen, the number of times the cache
\* had been emptied when it was loaded, stand for its identity
\* (gettext.translation returns a new object on every call, and a key of a
\* cache is assigned once).
CatalogShared(lang, key) == [lang |-> lang, key |-> lang, gen |-> 0]

Catalog(lang, key) == [lang |-> lang, key |-> key, gen |-> gen]

\* What gettext.install(DOMAIN, localedir=LOCALE_DIR) of line 55 installed
\* (or the identity lambda of line 64): taken to be the NullTranslations
\* fallback, which no manager owns.
ImportCatalog == [lang |-> None, key |-> <<"import">>, gen |-> 0]

Texts == {"hello", "other"}
Entries == {"hello"}            \* the source texts every catalog file translates

\* catalog.gettext(text): the translation, or the text itself; lang = None
\* in the result marks untranslated source text
Lookup(catalog, text) ==
    IF catalog.lang # None /\ text \in Entries
    THEN [text |-> text, lang |-> catalog.lang]
    ELSE [text |-> text, lang |-> None]

\* gettext.gettext(text) of the standard library, as called on line 82: it
\* looks text up in the catalog of the current text domain ('messages', which
\* this module never binds and ships no catalog for), not in builtins._, so
\* it is the lookup in a catalog without entries.
gettext_gettext(text) == Lookup([lang |-> None, key |-> <<"messages">>, gen |-> 0], text)

\* gettext.translation(DOMAIN, localedir=LOCALE_DIR, languages=[code]):
\* "ok", or the exception it raises
translation(code) ==
    IF code = None THEN "AttributeError"     \* locale.normalize(None)
    ELSE IF code \in available THEN "ok"
    ELSE "IOError"

EmptyCache == [k \in {} |-> ImportCatalog]
NoLoads == [k \in {} |-> 0]
Calls(k) == IF k \in DOMAIN loads THEN loads[k] ELSE 0
CountLoad(k) == [x \in DOMAIN loads \cup {k} |-> IF x = k THEN Calls(k) + 1 ELSE loads[x]]

\* line 165: lang in self._gtobjs
CachedNever(lang) == FALSE

Cached(lang) == lang \in DOMAIN gtobjs

NoError == [kind |-> "none", origin |-> "none"]
Error(kind, origin) == [kind |-> kind, origin |-> origin]

NoOp == [op |-> "none", arg |-> None, lang |-> None, how |-> "none",
         before |-> ImportCatalog, after |-> ImportCatalog,
         keysBefore |-> {}, keysAfter |-> {}, yields |-> 0,
         raised |-> NoError, out |-> Lookup(ImportCatalog, "none"),
         gen |-> 0]

----------------------------------------------------------------------------
(* The manager *)

\* arguments the operations are called with
CtorArgs == {None, <<>>, <<"F", "r", "_">>}
LangArgs == {None, <<>>, en, <<"F", "r", "_">>, de}
BodyErrors == {"IOError", "KeyError", "ValueError"}
Caught == {"IOError", "KeyError"}         \* line 181: except (IOError, KeyError)

\* self._gtobjs[k] = v, line 133 and line 172
PutAlone(f, k, v) == [x \in {k} |-> v]

Put(f, k, v) == [x \in DOMAIN f \cup {k} |-> IF x = k THEN v ELSE f[x]]

\* AppriseLocale.__init__(language)
AppriseLocale(language) ==
    /\ ~constructed
    /\ constructed' = TRUE
    /\ LET lang == detect_language(language, TRUE)
           load == GETTEXT_LOADED /\ lang # None        \* lines 126, 130
           ok == load /\ translation(lang) = "ok"       \* IOError: pass
           obj == Catalog(lang, lang)
           cache == IF ok THEN Put(EmptyCache, lang, obj) ELSE EmptyCache
       IN /\ self_lang' = lang
          /\ gtobjs' = cache
          /\ installed' = IF ok THEN obj ELSE installed
          /\ loads' = IF load THEN CountLoad(lang) ELSE loads
          /\ last' = [NoOp EXCEPT !.op = "__init__", !.arg = language, !.lang = lang,
                                  !.before = installed,
                                  !.after = IF ok THEN obj ELSE installed,
                                  !.keysAfter = DOMAIN cache]
    /\ UNCHANGED <<GETTEXT_LOADED, available, stack, suspended>>
    /\ UNCHANGED <<envVars, detectVars, pickleVars, threadVars>>

\* self.lang after line 161, which assigns the tidied language to the local
\* variable lang only
lang_at_self_lang_assigned(lang) == lang

lang_at_self_lang(lang) == self_lang

\* lines 160-184 of lang_at(arg), up to the first yield or to the exception
\* that leaves the generator before any yield: the tidied language, whether
\* the catalog is loaded and what the load gives, the yield reached, the
\* catalog installed and the cache afterwards
lang_at_entry(arg) ==
    LET lang == IF GETTEXT_LOADED THEN detect_language(arg, FALSE) ELSE None
        load == GETTEXT_LOADED /\ ~Cached(lang)
        res == IF load THEN translation(self_lang) ELSE "none"  \* line 173
        obj == Catalog(self_lang, lang)
        installs == /\ GETTEXT_LOADED
                    /\ IF load THEN res = "ok" ELSE lang # self_lang
    IN [lang |-> lang, load |-> load, res |-> res,
        at |-> IF ~GETTEXT_LOADED THEN "L155"
               ELSE IF res = "IOError" THEN "L184" ELSE "L179",
        installs |-> installs,
        inst |-> IF ~installs THEN installed
                 ELSE IF load THEN obj ELSE gtobjs[lang],
        cache |-> IF load /\ res = "ok" THEN Put(gtobjs, lang, obj) ELSE gtobjs,
        fails |-> res = "AttributeError"]    \* not caught on line 181

\* lang_at(lang) up to its first yield (lines 153-184), or to the exception
\* that leaves it before any yield
lang_at(arg) ==
    /\ constructed
    /\ Len(stack) < MaxDepth
    /\ LET r == lang_at_entry(arg)
       IN /\ r.load => Calls(r.lang) < MaxLoads
          /\ loads' = IF r.load THEN CountLoad(r.lang) ELSE loads
          /\ gtobjs' = r.cache
          /\ installed' = r.inst
          /\ self_lang' = IF GETTEXT_LOADED THEN lang_at_self_lang(r.lang) ELSE self_lang
          /\ stack' = IF r.fails THEN stack
                      ELSE Append(stack, [lang |-> r.lang, at |-> r.at,
                                          prev |-> installed, gen |-> gen])
          /\ last' = [NoOp EXCEPT !.op = "enter", !.arg = arg, !.lang = r.lang,
                                  !.before = installed, !.after = r.inst,
                                  !.keysBefore = DOMAIN gtobjs,
                                  !.keysAfter = DOMAIN r.cache,
                                  !.yields = IF r.fails THEN 0 ELSE 1,
                                  !.gen = gen,
                                  !.raised = IF r.fails THEN Error(r.res, "module")
                                             ELSE NoError]
    /\ UNCHANGED <<GETTEXT_LOADED, available, constructed, suspended>>
    /\ UNCHANGED <<envVars, detectVars, pickleVars, threadVars>>

\* the finally clause, lines 186-190: the catalog installed after it and the
\* exception it raises
Finally(lang) ==
    IF lang # self_lang /\ lang \in DOMAIN gtobjs
    THEN IF self_lang \in DOMAIN gtobjs
         THEN [installed |-> gtobjs[self_lang], err |-> "none"]
         ELSE [installed |-> installed, err |-> "KeyError"]
    ELSE [installed |-> installed, err |-> "none"]

Top == stack[Len(stack)]
Pop == SubSeq(stack, 1, Len(stack) - 1)

ExitRecord(f, how, inst, n, err) ==
    [NoOp EXCEPT !.op = "exit", !.lang = f.lang, !.how = how,
                 !.before = f.prev, !.after = inst,
                 !.keysBefore = DOMAIN gtobjs, !.keysAfter = DOMAIN gtobjs,
                 !.yields = n, !.raised = err, !.gen = f.gen]

\* the body of the innermost scope returns: the generator is resumed
lang_at_exit ==
    /\ stack # <<>>
    /\ LET f == Top
           fin == IF f.at = "L155" THEN [installed |-> installed, err |-> "none"]
                  ELSE Finally(f.lang)
       IN /\ installed' = fin.installed
          /\ last' = ExitRecord(f, "normal", fin.installed, 1,
                                IF fin.err = "none" THEN NoError
                                ELSE Error(fin.err, "module"))
    /\ stack' = Pop
    /\ UNCHANGED <<GETTEXT_LOADED, available, constructed, self_lang, gtobjs,
                   suspended, loads>>
    /\ UNCHANGED <<envVars, detectVars, pickleVars, threadVars>>

\* the body of the innermost scope raises an exception of kind e: it is thrown
\* into the generator at the yield it is suspended at.  Thrown at line 179 an
\* IOError or KeyError is caught on line 181 and the generator yields again
\* on line 184: contextlib raises RuntimeError and the generator stays
\* suspended, its finally clause not run.
lang_at_throw(e) ==
    /\ stack # <<>>
    /\ LET f == Top
           again == f.at = "L179" /\ e \in Caught
           fin == IF f.at = "L155" \/ again
                  THEN [installed |-> installed, err |-> "none"]
                  ELSE Finally(f.lang)
       IN /\ again => Len(suspended) < MaxSuspended
          /\ installed' = fin.installed
          /\ suspended' = IF again THEN Append(suspended, f.lang) ELSE suspended
          /\ last' = [ExitRecord(f, "raise", fin.installed, IF again THEN 2 ELSE 1,
                                 IF again THEN Error("RuntimeError", "module")
                                 ELSE IF fin.err # "none" THEN Error(fin.err, "module")
                                 ELSE Error(e, "body"))
                      EXCEPT !.arg = <<e>>]
    /\ stack' = Pop
    /\ UNCHANGED <<GETTEXT_LOADED, available, constructed, self_lang, gtobjs, loads>>
    /\ UNCHANGED <<envVars, detectVars, pickleVars, threadVars>>

\* a generator left suspended at line 184 is finalised by the interpreter:
\* GeneratorExit is thrown at line 184 and the finally clause runs; what it
\* raises is not raised to any caller
lang_at_close ==
    /\ suspended # <<>>
    /\ installed' = Finally(Head(suspended)).installed
    /\ suspended' = Tail(suspended)
    /\ last' = [NoOp EXCEPT !.op = "close", !.lang = Head(suspended),
                            !.before = installed,
                            !.after = Finally(Head(suspended)).installed]
    /\ UNCHANGED <<GETTEXT_LOADED, available, constructed, self_lang, gtobjs,
                   stack, loads>>
    /\ UNCHANGED <<envVars, detectVars, pickleVars, threadVars>>

\* LazyTranslation(text).__str__(), lines 81-82; with the import of gettext
\* failed (line 60) the name gettext is unbound there
LazyTranslation_str(text) ==
    /\ last' = [NoOp EXCEPT !.op = "str", !.arg = <<text>>,
                            !.before = installed, !.after = installed,
                            !.out = IF GETTEXT_LOADED THEN gettext_gettext(text)
                                    ELSE Lookup(ImportCatalog, "none"),
                            !.raised = IF GETTEXT_LOADED THEN NoError
                                       ELSE Error("NameError", "module")]
    /\ UNCHANGED <<GETTEXT_LOADED, available, constructed, self_lang, gtobjs, installed,
                   stack, suspended, loads>>
    /\ UNCHANGED <<envVars, detectVars, pickleVars, threadVars>>

NoState == [lang |-> <<"NoState">>]

\* __getstate__(), lines 247-254: the instance's attributes without _gtobjs
getstate ==
    /\ constructed
    /\ pickled' = [lang |-> self_lang]
    /\ last' = [NoOp EXCEPT !.op = "getstate", !.lang = self_lang,
                            !.before = installed, !.after = installed,
                            !.keysBefore = DOMAIN gtobjs, !.keysAfter = DOMAIN gtobjs]
    /\ UNCHANGED <<GETTEXT_LOADED, available, constructed, self_lang, gtobjs, installed,
                   stack, suspended, loads, gen>>
    /\ UNCHANGED <<envVars, detectVars, threadVars>>

\* __setstate__(state), lines 256-261, with the state __getstate__ returned
setstate ==
    /\ constructed
    /\ pickled # NoState
    /\ gen < MaxPickles
    /\ self_lang' = pickled.lang
    /\ gtobjs' = EmptyCache
    /\ gen' = gen + 1
    /\ last' = [NoOp EXCEPT !.op = "setstate", !.lang = pickled.lang,
                            !.before = installed, !.after = installed,
                            !.keysBefore = DOMAIN gtobjs]
    /\ UNCHANGED <<GETTEXT_LOADED, available, constructed, installed, stack, suspended,
                   loads, pickled>>
    /\ UNCHANGED <<envVars, detectVars, threadVars>>

Threads == {"t1", "t2"}
NoThread == [pc |-> "start", lang |-> None, at |-> "none", wrote |-> FALSE,
             mine |-> ImportCatalog]

\* a thread enters lang_at(arg) on the shared manager, for a language other
\* than the other thread's
thread_enter(t, arg) ==
    /\ constructed
    /\ threads[t].pc = "start"
    /\ LET r == lang_at_entry(arg)
       IN /\ \A u \in Threads \ {t} : threads[u].pc = "start" \/ threads[u].lang # r.lang
          /\ loads' = IF r.load THEN CountLoad(r.lang) ELSE loads
          /\ gtobjs' = r.cache
          /\ installed' = r.inst
          /\ self_lang' = IF GETTEXT_LOADED THEN lang_at_self_lang(r.lang) ELSE self_lang
          /\ threads' = [threads EXCEPT ![t] =
                            [pc |-> IF r.fails THEN "done" ELSE "body", lang |-> r.lang,
                             at |-> r.at, wrote |-> r.installs, mine |-> r.inst]]
          /\ writer' = IF r.installs THEN t ELSE writer
          /\ last' = [NoOp EXCEPT !.op = "enter", !.arg = arg, !.lang = r.lang,
                                  !.before = installed, !.after = r.inst,
                                  !.keysBefore = DOMAIN gtobjs,
                                  !.keysAfter = DOMAIN r.cache,
                                  !.yields = IF r.fails THEN 0 ELSE 1,
                                  !.raised = IF r.fails THEN Error(r.res, "module")
                                             ELSE NoError]
    /\ UNCHANGED <<GETTEXT_LOADED, available, constructed, stack, suspended>>
    /\ UNCHANGED <<envVars, detectVars, pickleVars>>

\* the body of a thread's scope returns: its generator runs the finally clause
thread_exit(t) ==
    /\ threads[t].pc = "body"
    /\ LET f == threads[t]
           fin == IF f.at = "L155" THEN [installed |-> installed, err |-> "none"]
                  ELSE Finally(f.lang)
           restores == /\ f.at # "L155"
                       /\ f.lang # self_lang
                       /\ f.lang \in DOMAIN gtobjs
                       /\ fin.err = "none"
       IN /\ installed' = fin.installed
          /\ writer' = IF restores THEN t ELSE writer
          /\ threads' = [threads EXCEPT ![t].pc = "done"]
          /\ last' = [NoOp EXCEPT !.op = "exit", !.lang = f.lang, !.how = "normal",
                                  !.before = installed, !.after = fin.installed,
                                  !.keysBefore = DOMAIN gtobjs,
                                  !.keysAfter = DOMAIN gtobjs, !.yields = 1,
                                  !.raised = IF fin.err = "none" THEN NoError
                                             ELSE Error(fin.err, "module")]
    /\ UNCHANGED <<GETTEXT_LOADED, available, constructed, self_lang, gtobjs, stack,
                   suspended, loads>>
    /\ UNCHANGED <<envVars, detectVars, pickleVars>>

\* a direct call detect_language(lang, detect_fallback), lines 194-245
detect_language_call(lang, detect_fallback) ==
    /\ d_lang' = lang
    /\ d_fallback' = detect_fallback
    /\ d_result' = detect(lang, detect_fallback).value
    /\ d_stage' = detect(lang, detect_fallback).stage
    /\ UNCHANGED <<envVars, managerVars>>

EnvNames == {"LC_ALL", "LC_CTYPE", "LANG", "LANGUAGE"}
EnvUnset == [v \in EnvNames |-> None]

InitDetectVars ==
    /\ d_lang = None
    /\ d_fallback = FALSE
    /\ d_result = None
    /\ d_stage = "none"

InitManagerVars ==
    /\ GETTEXT_LOADED \in BOOLEAN
    /\ available \in SUBSET {en, fr}
    /\ constructed = FALSE
    /\ self_lang = None
    /\ gtobjs = EmptyCache
    /\ installed = ImportCatalog
    /\ stack = <<>>
    /\ suspended = <<>>
    /\ loads = NoLoads
    /\ last = NoOp
    /\ gen = 0
    /\ pickled = NoState
    /\ threads = [t \in Threads |-> NoThread]
    /\ writer = "none"

Init ==
    /\ environ = [EnvUnset EXCEPT !["LANG"] = <<"e", "n", "_">>]
    /\ hasWindll = FALSE
    /\ winLocale = LookupFailure
    /\ osLocale = None
    /\ InitDetectVars
    /\ InitManagerVars

Next ==
    \/ \E language \in CtorArgs : AppriseLocale(language)
    \/ \E arg \in LangArgs : lang_at(arg)
    \/ lang_at_exit
    \/ \E e \in BodyErrors : lang_at_throw(e)
    \/ lang_at_close
    \/ \E text \in Texts : LazyTranslation_str(text)

Spec == Init /\ [][Next]_vars

\* the manager with pickle support
PickleLangArgs == {None, <<"F", "r", "_">>}
PickleBodyErrors == {"KeyError", "ValueError"}   \* one caught on line 181, one not

NextPickle ==
    \/ \E language \in CtorArgs : AppriseLocale(language)
    \/ \E arg \in PickleLangArgs : lang_at(arg)
    \/ lang_at_exit
    \/ \E e \in PickleBodyErrors : lang_at_throw(e)
    \/ lang_at_close
    \/ getstate
    \/ setstate

SpecPickle == Init /\ [][NextPickle]_vars

\* two threads, each running one scope on the shared manager
NextThreads ==
    \/ \E language \in CtorArgs : AppriseLocale(language)
    \/ \E t \in Threads, arg \in LangArgs : thread_enter(t, arg)
    \/ \E t \in Threads : thread_exit(t)

SpecThreads == Init /\ [][NextThreads]_vars

----------------------------------------------------------------------------
(* detect_language on a supplied raw language: every string up to MaxLen *)

InitNormalise ==
    /\ environ = EnvUnset
    /\ hasWindll = FALSE
    /\ winLocale = LookupFailure
    /\ osLocale = None
    /\ InitDetectVars
    /\ InitManagerVars
    /\ GETTEXT_LOADED
    /\ available = {}

NextNormalise ==
    \E s \in Strings, fb \in BOOLEAN : detect_language_call(s, fb)

SpecNormalise == InitNormalise /\ [][NextNormalise]_vars

----------------------------------------------------------------------------
(* detect_language without a raw language: every environment *)

EnvValues == {None, <<>>, <<"1", "e">>, <<"e", "n", "_">>, <<" ", "F", "r">>}

InitDetect ==
    /\ environ \in [EnvNames -> EnvValues]
    /\ hasWindll \in BOOLEAN
    /\ winLocale \in {LookupFailure, <<"d", "e", "_">>}
    /\ osLocale \in {None, TypeErrorRaised, <<"R", "e", "_">>}
    /\ InitDetectVars
    /\ InitManagerVars
    /\ GETTEXT_LOADED
    /\ available = {}

NextDetect ==
    \E fb \in BOOLEAN : detect_language_call(None, fb)

SpecDetect == InitDetect /\ [][NextDetect]_vars

----------------------------------------------------------------------------
(* Claims *)

\* C1: whenever a lang_at scope is open for a language L that is a code,
\* differs from the manager's default and has a catalog file, the installed
\* catalog is the catalog of L, cached under L.
C1_InstalledIsRequested ==
    (GETTEXT_LOADED /\ stack # <<>> /\ Top.lang # None /\ Top.lang # self_lang
        /\ Top.lang \in available)
    => /\ installed.lang = Top.lang
       /\ Top.lang \in DOMAIN gtobjs
       /\ gtobjs[Top.lang].lang = Top.lang

\* C2: right after a lang_at scope exits, normally or by an exception of its
\* body, the installed catalog is the one installed right before it was entered.
C2_ExitRestoresPrevious ==
    last.op = "exit" => last.after = last.before

\* C3: constructing a manager, entering a scope and leaving a scope never
\* raise an error of the module's own to the caller.
C3_NoModuleError ==
    last.op \in {"__init__", "enter", "exit"} => last.raised.origin # "module"

\* C4: a scope for a language without a catalog file is entered without an
\* error, runs its body exactly once, and leaves the catalog installed that
\* was installed before it was entered.
C4_MissingCatalogScope ==
    (GETTEXT_LOADED /\ last.lang # None /\ last.lang \notin available)
    => /\ last.op = "enter" => (last.raised = NoError /\ last.yields = 1)
       /\ last.op = "exit" => /\ last.raised.origin # "module"
                              /\ last.yields = 1
                              /\ last.after = last.before

\* C5: entering a scope whose argument resolves to no language code, or whose
\* language has no catalog file, runs the body, installs nothing and adds
\* nothing to the cache.
C5_FailedSwitchChangesNothing ==
    (GETTEXT_LOADED /\ last.op = "enter"
        /\ (last.lang = None \/ last.lang \notin available))
    => /\ last.yields = 1
       /\ last.after = last.before
       /\ last.keysAfter = last.keysBefore

\* C6: for a supplied string, detect_language returns the lowercase of its two
\* leading letters when it begins with two letters, and None otherwise.
C6_SuppliedNormalised ==
    d_stage = "supplied"
    => d_result = IF Len(d_lang) >= 2 /\ d_lang[1] \in Letters /\ d_lang[2] \in Letters
                  THEN Lower(SubSeq(d_lang, 1, 2))
                  ELSE None

\* the lowercase language codes a locale name begins with: two letters after
\* any white space (none for an unset, empty or unparseable value)
LangPrefixes(s) ==
    {Lower(<<s[i + 1], s[i + 2]>>) : i \in {n \in 0..Len(s) :
        /\ n + 2 <= Len(s)
        /\ \A j \in 1..n : s[j] = " "
        /\ s[n + 1] \in Letters
        /\ s[n + 2] \in Letters}}

ClaimedOrder == <<"LC_ALL", "LC_CTYPE", "LANG", "LANGUAGE">>

\* C7: without a raw language and with fallback enabled, the result is the
\* code of the first of LC_ALL, LC_CTYPE, LANG, LANGUAGE that is set and
\* parseable, whatever the later ones hold, and the Windows and generic
\* queries are reached only when none of the four is.
C7_FirstParseableWins ==
    (d_stage # "none" /\ d_lang = None /\ d_fallback)
    => /\ \A i \in 1..4 :
            (/\ LangPrefixes(environ[ClaimedOrder[i]]) # {}
             /\ \A j \in 1..(i - 1) : LangPrefixes(environ[ClaimedOrder[j]]) = {})
            => /\ d_stage = "posix"
               /\ d_result \in LangPrefixes(environ[ClaimedOrder[i]])
       /\ d_stage \in {"windows", "warning", "generic"}
            => \A i \in 1..4 : LangPrefixes(environ[ClaimedOrder[i]]) = {}

\* LC_ALL unset and LC_CTYPE unparseable are skipped, LANG wins over LANGUAGE
C7_Witness ==
    /\ d_stage = "posix"
    /\ d_fallback
    /\ environ["LC_ALL"] = None
    /\ environ["LC_CTYPE"] = <<"1", "e">>
    /\ environ["LANG"] = <<" ", "F", "r">>
    /\ environ["LANGUAGE"] = <<"e", "n", "_">>
    /\ d_result = fr

\* C8: str() of a lazy text is the lookup of its text in the catalog that is
\* installed at that moment.
C8_LazyRendersInstalled ==
    (GETTEXT_LOADED /\ last.op = "str")
    => last.out = Lookup(last.before, last.arg[1])

\* C9 as claimed: the loading facility is called at most once for each
\* requested language code.
C9_AtMostOneLoad ==
    \A k \in DOMAIN loads : loads[k] <= 1

\* C9 as amended: no operation calls the loading facility for a language code
\* that is in the cache; only codes that are not cached, such as those whose
\* load failed, are loaded again.
C9_CachedNeverReloaded ==
    [][\A k \in DOMAIN gtobjs : k \in DOMAIN loads /\ loads'[k] = loads[k]]_vars

\* a scope was entered for a language that was in the cache already, and the
\* facility has been called once for it
C9_Witness ==
    /\ GETTEXT_LOADED
    /\ last.op = "enter"
    /\ last.lang # self_lang
    /\ last.lang \in last.keysBefore
    /\ loads[last.lang] = 1

\* C10: without the translation subsystem nothing is loaded or installed, no
\* operation raises, a scope runs its body once and str() of a lazy text is
\* its text.
C10_NoOpWhenUnavailable ==
    ~GETTEXT_LOADED
    => /\ gtobjs = EmptyCache
       /\ installed = ImportCatalog
       /\ last.raised.origin # "module"
       /\ last.op = "enter" => last.yields = 1
       /\ last.op = "str" => last.out = [text |-> last.arg[1], lang |-> None]

\* C11 as claimed: no operation, __getstate__ and __setstate__ included,
\* removes a key from the cache or maps it to another catalog object.
C11_CacheAppendOnly ==
    [][\A k \in DOMAIN gtobjs : k \in DOMAIN gtobjs' /\ gtobjs'[k] = gtobjs[k]]_vars

\* C11 as amended: every operation other than __setstate__ keeps every key
\* of the cache, mapped to the same catalog object.
C11_AppendOnlyButSetstate ==
    [][gen' = gen
       => \A k \in DOMAIN gtobjs : k \in DOMAIN gtobjs' /\ gtobjs'[k] = gtobjs[k]]_vars

\* a scope for another language has been closed after __getstate__, and its
\* key and the default's are both still cached
C11_Witness ==
    /\ GETTEXT_LOADED
    /\ pickled # NoState
    /\ last.op = "exit"
    /\ last.lang # self_lang
    /\ {last.lang, self_lang} \subseteq DOMAIN gtobjs

\* C12: entering a scope, leaving it (by return or by exception) and
\* finalising its generator leave self.lang unchanged.
C12_DefaultLangUnchanged ==
    [][last'.op \in {"enter", "exit", "close"} => self_lang' = self_lang]_vars

\* a scope for a language other than the default has been entered and left
C12_Witness ==
    /\ GETTEXT_LOADED
    /\ last.op = "exit"
    /\ self_lang = en
    /\ last.lang = fr
    /\ fr \in DOMAIN gtobjs

\* C13: a scope whose language is the manager's default installs nothing on
\* entry, and while it is the innermost open scope the installed catalog is
\* the one cached under the default language.
C13_DefaultScopeNoSwap ==
    /\ (GETTEXT_LOADED /\ last.op = "enter" /\ last.lang = self_lang
            /\ self_lang \in last.keysBefore)
       => last.after = last.before
    /\ (GETTEXT_LOADED /\ stack # <<>> /\ Top.lang = self_lang
            /\ self_lang \in DOMAIN gtobjs)
       => installed = gtobjs[self_lang]

\* C15: when the body of a scope raises, the generator has yielded once and
\* the caller gets the error the body raised.
C15_YieldsOnce ==
    (last.op = "exit" /\ last.how = "raise")
    => /\ last.yields = 1
       /\ last.raised = Error(last.arg[1], "body")

\* C16: __setstate__ with the state of __getstate__ keeps the default
\* language and leaves an empty cache; a scope entered afterwards on a
\* manager whose default language has a catalog file is entered and left
\* without an error of the module, and leaves the default's catalog installed.
C16_RestoredUsable ==
    /\ last.op = "setstate" => (self_lang = pickled.lang /\ gtobjs = EmptyCache)
    /\ (GETTEXT_LOADED /\ last.gen > 0 /\ self_lang \in available
            /\ last.op \in {"enter", "exit"} /\ last.how # "raise")
       => /\ last.raised.origin # "module"
          /\ last.op = "exit"
                => (self_lang \in DOMAIN gtobjs /\ installed = gtobjs[self_lang])

\* C17: with the default's catalog loaded by the constructor and no scope
\* open, the installed catalog is the one cached under the default language.
C17_DefaultActiveOutsideScopes ==
    (GETTEXT_LOADED /\ constructed /\ gen = 0 /\ stack = <<>>
        /\ self_lang \in DOMAIN gtobjs)
    => installed = gtobjs[self_lang]

\* C14: while a thread is inside the body of a scope that installed a catalog
\* and the other thread was the last to install one (on entering or leaving
\* its own scope), the installed catalog is not the one the first thread
\* installed: the other thread's switch has leaked into its scope.
C14_SwitchLeaks ==
    \A t \in Threads :
        (threads[t].pc = "body" /\ threads[t].wrote /\ writer \in Threads \ {t})
        => installed # threads[t].mine

\* t1 is in its body and the installed catalog is the one t2 installed
C14_Witness ==
    /\ threads["t1"].pc = "body"
    /\ threads["t1"].wrote
    /\ threads["t2"].pc = "body"
    /\ threads["t2"].wrote
    /\ writer = "t2"
    /\ installed = threads["t2"].mine
    /\ installed # threads["t1"].mine

====
